---- MODULE Spec2Model ----
(***************************************************************************)
(* A model of the URL scraper: the robots.txt gate (utils/robots.py), the  *)
(* retrying fetcher and the per-URL loop (main.py), and block detection    *)
(* and structured-data extraction (utils/parser.py).                       *)
(*                                                                         *)
(* Python strings are sequences of one-character strings, so that lower(), *)
(* the `in` substring test, replace(), strip() and str() are computed and  *)
(* not assumed.  None is the one-element sequence <<"None">>, which is no  *)
(* string because its element is not a single character.                   *)
(***************************************************************************)
EXTENDS Integers, Sequences, FiniteSets, TLC

VARIABLES
    urls,         \* start_scraping's argument: the input URL list
    k,            \* position of the for loop of start_scraping (1-based)
    pc,           \* where start_scraping stands inside the loop body
    all_results,  \* start_scraping's all_results
    cache,        \* robots._ROBOTS_CACHE: base domain -> parser
    policyLog,    \* transport log: the robots.txt requests, <<base domain, outcome>>
    gate,         \* what is_allowed returned for the current URL
    tries,        \* fetch_url_data's parameter tries
    wait,         \* fetch_url_data's parameter wait
    i,            \* fetch_url_data's loop variable
    attempts,     \* transport log: one entry per GET of the current fetch call
    sleeps,       \* time.sleep log of the current fetch call: the seconds slept
    response,     \* fetch_url_data's local: the last response received
    resp,         \* start_scraping's local: what fetch_url_data returned
    page,         \* extract_structured_data's argument (extractor specification)
    data,         \* extract_structured_data's result (extractor specification)
    raised        \* the loop positions at which a call raised into line 208

vars == <<urls, k, pc, all_results, cache, policyLog, gate, tries, wait, i,
          attempts, sleeps, response, resp, page, data, raised>>

(***************************************************************************)
(* Bounds of the model.                                                    *)
(***************************************************************************)
MaxUrls == 2
MaxTries == 3
MaxWait == 2
MaxElems == 2
MaxObjs == 2

(***************************************************************************)
(* Strings.                                                                *)
(***************************************************************************)
None == <<"None">>

UpperChars == <<"A", "B", "C", "D", "E", "F", "G", "H", "I", "J", "K", "L", "M",
                "N", "O", "P", "Q", "R", "S", "T", "U", "V", "W", "X", "Y", "Z">>
LowerChars == <<"a", "b", "c", "d", "e", "f", "g", "h", "i", "j", "k", "l", "m",
                "n", "o", "p", "q", "r", "s", "t", "u", "v", "w", "x", "y", "z">>

\* str.lower() on one character
LowerChar(c) ==
    IF \E n \in 1..Len(UpperChars) : UpperChars[n] = c
    THEN LowerChars[CHOOSE n \in 1..Len(UpperChars) : UpperChars[n] = c]
    ELSE c

\* str.upper() on one character
UpperChar(c) ==
    IF \E n \in 1..Len(LowerChars) : LowerChars[n] = c
    THEN UpperChars[CHOOSE n \in 1..Len(LowerChars) : LowerChars[n] = c]
    ELSE c

\* s.lower()
Lower(s) == [n \in 1..Len(s) |-> LowerChar(s[n])]

\* sub in s
Contains(sub, s) ==
    \E off \in 0..(Len(s) - Len(sub)) :
        \A j \in 1..Len(sub) : s[off + j] = sub[j]

(***************************************************************************)
(* utils/parser.py: block detection.                                       *)
(***************************************************************************)
_BLOCK_KEYWORDS ==
    << <<"c", "a", "p", "t", "c", "h", "a">>,
       <<"b", "l", "o", "c", "k", "e", "d">>,
       <<"a", "c", "c", "e", "s", "s", " ", "d", "e", "n", "i", "e", "d">>,
       <<"u", "n", "u", "s", "u", "a", "l", " ", "t", "r", "a", "f", "f", "i", "c">>,
       <<"v", "e", "r", "i", "f", "y", " ", "y", "o", "u", " ", "a", "r", "e", " ",
         "h", "u", "m", "a", "n">>,
       <<"b", "o", "t", " ", "d", "e", "t", "e", "c", "t", "e", "d">>,
       <<"r", "a", "t", "e", " ", "l", "i", "m", "i", "t">> >>

BlockingStatus == {403, 429, 503}

\* check_blocking without lower(): a case-sensitive keyword scan
check_blocking_case_sensitive(r) ==
    IF r.status_code \in BlockingStatus THEN TRUE
    ELSE IF ~r.decodable THEN FALSE
    ELSE \E n \in 1..Len(_BLOCK_KEYWORDS) : Contains(_BLOCK_KEYWORDS[n], r.text)

\* check_blocking(response).  A response whose text cannot be decoded raises
\* inside the try block, and the handler answers False.
check_blocking(r) ==
    IF r.status_code \in BlockingStatus THEN TRUE
    ELSE IF ~r.decodable THEN FALSE
    ELSE LET body == Lower(r.text)
         IN  \E n \in 1..Len(_BLOCK_KEYWORDS) : Contains(_BLOCK_KEYWORDS[n], body)

(***************************************************************************)
(* main.py: fetch_url_data.                                                *)
(***************************************************************************)
retry_codes == {429, 500, 502, 503, 504}

\* Values of main.py's resp: nothing returned yet, and Python's None.
NotReturned == [kind |-> "not returned"]
NoneResp == [kind |-> "None"]

\* What one iteration of the for loop does: go round again after a sleep,
\* or return.
Retry(seconds) == [op |-> "continue", sleep |-> seconds, value |-> NoneResp]
Return(value)  == [op |-> "return", sleep |-> 0, value |-> value]

\* fetch_url_data with a constant backoff after a transport error: wait
\* seconds before every retry instead of wait * 2^i
fetch_iteration_flat_backoff(o, n, tries_, wait_) ==
    IF o.kind = "error"
    THEN IF n < tries_ THEN Retry(wait_) ELSE Return(NoneResp)
    ELSE LET r == [o EXCEPT !._was_blocked = check_blocking(o)]
         IN  IF r._was_blocked THEN Return(r)
             ELSE IF r.status_code = 403 THEN Return(r)
             ELSE IF r.status_code \in retry_codes
                  THEN IF n < tries_ THEN Retry(wait_ * (2 ^ n))
                       ELSE Return(NoneResp)
             ELSE IF r.status_code >= 400 THEN Return(NoneResp)
             ELSE Return(r)

\* One iteration of fetch_url_data's loop, for loop variable n, on the
\* outcome o of requests.get: a raised transport error or a response.
fetch_iteration(o, n, tries_, wait_) ==
    IF o.kind = "error"
    THEN IF n < tries_ THEN Retry(wait_ * (2 ^ n)) ELSE Return(NoneResp)
    ELSE LET r == [o EXCEPT !._was_blocked = check_blocking(o)]
         IN  IF r._was_blocked THEN Return(r)
             ELSE IF r.status_code = 403 THEN Return(r)
             ELSE IF r.status_code \in retry_codes
                  THEN IF n < tries_ THEN Retry(wait_ * (2 ^ n))
                       ELSE Return(NoneResp)
             ELSE IF r.status_code >= 400 THEN Return(NoneResp)
             ELSE Return(r)

(***************************************************************************)
(* More of Python's str.                                                   *)
(***************************************************************************)
Whitespace == {" ", "\t", "\n"}

RECURSIVE LStrip(_)
LStrip(s) ==
    IF s # <<>> /\ Head(s) \in Whitespace THEN LStrip(Tail(s)) ELSE s

RECURSIVE RStrip(_)
RStrip(s) ==
    IF s # <<>> /\ s[Len(s)] \in Whitespace
    THEN RStrip(SubSeq(s, 1, Len(s) - 1))
    ELSE s

\* s.strip()
Strip(s) == RStrip(LStrip(s))

\* s.replace(old, new), old not empty
RECURSIVE Replace(_, _, _)
Replace(s, old, new) ==
    IF Len(s) < Len(old) THEN s
    ELSE IF SubSeq(s, 1, Len(old)) = old
         THEN new \o Replace(SubSeq(s, Len(old) + 1, Len(s)), old, new)
         ELSE <<Head(s)>> \o Replace(Tail(s), old, new)

\* s.capitalize()
Capitalize(s) ==
    [n \in 1..Len(s) |-> IF n = 1 THEN UpperChar(s[n]) ELSE LowerChar(s[n])]

\* sep.join(parts)
RECURSIVE Join(_, _)
Join(sep, parts) ==
    IF parts = <<>> THEN <<>>
    ELSE IF Len(parts) = 1 THEN parts[1]
    ELSE parts[1] \o sep \o Join(sep, Tail(parts))

Digits == <<"0", "1", "2", "3", "4", "5", "6", "7", "8", "9">>

\* str(n) for an int
RECURSIVE IntToStr(_)
IntToStr(n) ==
    IF n < 0 THEN <<"-">> \o IntToStr(0 - n)
    ELSE IF n < 10 THEN <<Digits[n + 1]>>
    ELSE IntToStr(n \div 10) \o <<Digits[(n % 10) + 1]>>

\* any(kw in s for kw in keys), keys a sequence of strings
AnyIn(keys, s) == \E n \in 1..Len(keys) : Contains(keys[n], s)

(***************************************************************************)
(* utils/parser.py: the parsed document.  BeautifulSoup(html) is a         *)
(* sequence of elements in document order and the ld+json script blocks in *)
(* document order.  An element carries its tag name, the attributes the    *)
(* extractor reads (an absent attribute is the empty value) and the text   *)
(* nodes below it.                                                         *)
(***************************************************************************)
_CTA_KEYWORDS ==
    << <<"g", "e", "t">>, <<"s", "t", "a", "r", "t">>, <<"t", "r", "y">>,
       <<"s", "i", "g", "n">>, <<"b", "u", "y">>, <<"f", "r", "e", "e">>,
       <<"d", "e", "m", "o">>, <<"d", "o", "w", "n", "l", "o", "a", "d">>,
       <<"j", "o", "i", "n">>, <<"s", "u", "b", "s", "c", "r", "i", "b", "e">>,
       <<"a", "d", "d">> >>

\* get_text_clean(element): element.get_text(" ", strip=True)
get_text_clean(e) ==
    Join(<<" ">>, SelectSeq([n \in 1..Len(e.strings) |-> Strip(e.strings[n])],
                           LAMBDA t : t # <<>>))

\* value or None
OrNone(v) == IF v # <<>> THEN v ELSE None

\* find_title(soup)
find_title(soup) ==
    LET tags == SelectSeq(soup, LAMBDA e : e.tag = "title")
    IN  IF tags = <<>> THEN None ELSE OrNone(get_text_clean(tags[1]))

\* find_h1(soup)
find_h1(soup) ==
    LET tags == SelectSeq(soup, LAMBDA e : e.tag = "h1")
    IN  IF tags = <<>> THEN None ELSE OrNone(get_text_clean(tags[1]))

\* find_meta(soup)
find_meta(soup) ==
    LET ms == SelectSeq(soup, LAMBDA e : e.tag = "meta" /\ e.name = "description")
    IN  IF ms # <<>> /\ ms[1].content # <<>>
        THEN OrNone(Strip(ms[1].content))
        ELSE None

(***************************************************************************)
(* utils/parser.py: get_metric.                                            *)
(***************************************************************************)
TypeRating == <<"r", "a", "t", "i", "n", "g">>
TypeReviewCount == <<"r", "e", "v", "i", "e", "w", "_", "c", "o", "u", "n", "t">>
StarRating == <<"s", "t", "a", "r", "-", "r", "a", "t", "i", "n", "g">>

MetricKeys(type) ==
    IF type = TypeRating
    THEN << <<"r", "a", "t", "i", "n", "g">>, <<"s", "t", "a", "r", "s">>,
            <<"s", "c", "o", "r", "e">> >>
    ELSE << <<"r", "e", "v", "i", "e", "w">>, <<"c", "o", "u", "n", "t">> >>

MetricItemProp(type) == IF type = TypeRating THEN "ratingValue" ELSE "reviewCount"

\* " ".join(cls_list).lower()
Combined(e) == Lower(Join(<<" ">>, e.class))

\* The class loop of get_metric, from element n on.
RECURSIVE ClassScan(_, _, _)
ClassScan(soup, n, type) ==
    IF n > Len(soup) THEN None
    ELSE LET e == soup[n]
             v == get_text_clean(e)
         IN  IF e.class # <<>> /\ AnyIn(MetricKeys(type), Combined(e))
             THEN IF v = <<>> /\ type = TypeRating
                  THEN Capitalize(Strip(Replace(Combined(e), StarRating, <<>>)))
                  ELSE IF v # <<>> THEN v
                  ELSE ClassScan(soup, n + 1, type)
             ELSE ClassScan(soup, n + 1, type)

\* The aria-label strategy and what follows it.
AriaThenClass(soup, type) ==
    LET ms == SelectSeq(soup, LAMBDA e : Contains(type, Lower(e.aria)))
        v  == IF ms = <<>> THEN <<>> ELSE get_text_clean(ms[1])
    IN  IF v # <<>> THEN v ELSE ClassScan(soup, 1, type)

\* get_metric(soup, type)
get_metric(soup, type) ==
    LET ms == SelectSeq(soup, LAMBDA e : e.itemprop = MetricItemProp(type))
        t  == IF ms = <<>> THEN <<>> ELSE get_text_clean(ms[1])
        v  == IF ms = <<>> THEN <<>>
              ELSE IF t # <<>> THEN t ELSE Strip(ms[1].content)
    IN  IF v # <<>> THEN v ELSE AriaThenClass(soup, type)

(***************************************************************************)
(* utils/parser.py: JSON-LD.  A JSON value is [t, v]: t its Python type    *)
(* after json.loads, v its value (a dict is a function from keys to JSON   *)
(* values, a float its whole part and its tenths).  A script block is      *)
(* [raw, parsed]: raw is "empty" (no text), "malformed" (json.loads raises *)
(* JSONDecodeError) or "json".                                             *)
(***************************************************************************)
JStr(s) == [t |-> "str", v |-> s]
JInt(n) == [t |-> "int", v |-> n]
JFloat(whole, tenths) == [t |-> "float", v |-> <<whole, tenths>>]
JBool(b) == [t |-> "bool", v |-> b]
JNull == [t |-> "null", v |-> <<>>]
JList(items) == [t |-> "list", v |-> items]
JDict(fields) == [t |-> "dict", v |-> fields]

\* isinstance(x, dict)
IsDict(x) == x.t = "dict"

\* The dicts among items, in order.
DictsOf(items) == SelectSeq(items, IsDict)

\* What one script block adds to items.
BlockItems(b) ==
    IF b.raw # "json" THEN <<>>
    ELSE IF b.parsed.t = "list" THEN DictsOf(b.parsed.v)
    ELSE IF b.parsed.t = "dict"
         THEN (IF "@graph" \in DOMAIN b.parsed.v /\ b.parsed.v["@graph"].t = "list"
               THEN DictsOf(b.parsed.v["@graph"].v)
               ELSE <<>>) \o <<b.parsed>>
    ELSE <<>>

\* get_json_ld(soup), over the script blocks in document order
RECURSIVE get_json_ld(_)
get_json_ld(blocks) ==
    IF blocks = <<>> THEN <<>>
    ELSE BlockItems(Head(blocks)) \o get_json_ld(Tail(blocks))

\* str(curr) for a str, an int (bool is an int) or a float
PyStr(x) ==
    IF x.t = "str" THEN x.v
    ELSE IF x.t = "int" THEN IntToStr(x.v)
    ELSE IF x.t = "bool"
         THEN (IF x.v THEN <<"T", "r", "u", "e">> ELSE <<"F", "a", "l", "s", "e">>)
    ELSE IntToStr(x.v[1]) \o <<".">> \o IntToStr(x.v[2])

\* The inner loop of read_json_data: [valid, curr] after walking path from o.
RECURSIVE Walk(_, _)
Walk(curr, path) ==
    IF path = <<>> THEN [valid |-> TRUE, curr |-> curr]
    ELSE IF IsDict(curr) /\ Head(path) \in DOMAIN curr.v
         THEN Walk(curr.v[Head(path)], Tail(path))
         ELSE [valid |-> FALSE, curr |-> curr]

\* read_json_data(objs, path)
RECURSIVE read_json_data(_, _)
read_json_data(objs, path) ==
    IF objs = <<>> THEN None
    ELSE LET w == Walk(Head(objs), path)
         IN  IF w.valid /\ w.curr.t # "null" /\ w.curr.t \in {"str", "int", "bool", "float"}
             THEN PyStr(w.curr)
             ELSE read_json_data(Tail(objs), path)

(***************************************************************************)
(* utils/parser.py: get_price and get_btns.                                *)
(***************************************************************************)
PriceTags == <<"div", "span", "p", "li", "section", "a", "button">>
PriceKeys == << <<"p", "r", "i", "c", "e">>, <<"p", "r", "i", "c", "i", "n", "g">>,
                <<"p", "l", "a", "n">>, <<"c", "o", "s", "t">> >>

\* The elements get_price's two loops visit, in the order they visit them.
RECURSIVE PriceOrder(_, _)
PriceOrder(soup, n) ==
    IF n > Len(PriceTags) THEN <<>>
    ELSE SelectSeq(soup, LAMBDA e : e.tag = PriceTags[n]) \o PriceOrder(soup, n + 1)

\* get_price(soup)
get_price(soup) ==
    LET ms == SelectSeq(soup, LAMBDA e : e.itemprop = "price")
        t  == IF ms = <<>> THEN <<>> ELSE get_text_clean(ms[1])
        v  == IF ms = <<>> THEN <<>>
              ELSE IF t # <<>> THEN t ELSE Strip(ms[1].content)
        hits == SelectSeq(PriceOrder(soup, 1),
                         LAMBDA e : /\ AnyIn(PriceKeys,
                                             Lower(Join(<<" ">>, e.class) \o <<" ">> \o e.id))
                                    /\ get_text_clean(e) # <<>>)
    IN  IF v # <<>> THEN v
        ELSE IF hits # <<>> THEN get_text_clean(hits[1])
        ELSE None

\* f"{scheme}://{netloc}"
SchemeAndHost(u) == u.scheme \o <<":", "/", "/">> \o u.netloc

\* The path up to and including its last "/".
RECURSIVE DirOf(_)
DirOf(path) ==
    IF path = <<>> THEN <<"/">>
    ELSE IF path[Len(path)] = "/" THEN path
    ELSE DirOf(SubSeq(path, 1, Len(path) - 1))

\* urljoin(url, h) for a reference h that is an absolute URL, an absolute
\* path or a relative path without dot segments.
urljoin(u, h) ==
    IF Contains(<<":", "/", "/">>, h) THEN h
    ELSE IF Head(h) = "/" THEN SchemeAndHost(u) \o h
    ELSE SchemeAndHost(u) \o DirOf(u.path) \o h

\* The text get_btns picks for an element.
BtnText(e) ==
    IF e.tag = "input"
    THEN Strip(IF e.value # <<>> THEN e.value ELSE e.placeholder)
    ELSE get_text_clean(e)

\* The link get_btns picks for an element.
BtnHref(e, u) ==
    IF e.tag = "a" /\ Strip(e.href) # <<>> THEN urljoin(u, Strip(e.href)) ELSE <<>>

\* get_btns(soup, url)
get_btns(soup, u) ==
    LET els  == SelectSeq(soup, LAMBDA e : e.tag \in {"a", "button", "input"})
        hits == SelectSeq(els,
                    LAMBDA e : /\ BtnText(e) # <<>>
                               /\ \E n \in 1..Len(_CTA_KEYWORDS) :
                                      \/ Contains(_CTA_KEYWORDS[n], Lower(BtnText(e)))
                                      \/ Contains(_CTA_KEYWORDS[n], Lower(BtnHref(e, u))))
    IN  [n \in 1..Len(hits) |-> [text |-> BtnText(hits[n]), href |-> BtnHref(hits[n], u)]]

(***************************************************************************)
(* utils/parser.py: extract_structured_data.  The statements of its try    *)
(* block are numbered 1..9; raiseAt = n says that statement n raises (the  *)
(* handler then sets status to "failed" and returns data as it stands),    *)
(* raiseAt = 0 that none does.                                             *)
(***************************************************************************)
Steps == <<"soup", "title", "h1", "meta_description", "objs", "rating",
           "review_count", "pricing", "ctas">>

\* Statement n has run to its end.
Ran(n, raiseAt) == raiseAt = 0 \/ n < raiseAt

PathRatingValue == <<"aggregateRating", "ratingValue">>
PathReviewCount == <<"aggregateRating", "reviewCount">>
PathRatingCount == <<"aggregateRating", "ratingCount">>
PathOffersPrice == <<"offers", "price">>

\* The rating with the JSON-LD value taking precedence over the DOM value
extract_rating_json_first(soup, objs) ==
    LET j == read_json_data(objs, PathRatingValue)
    IN  IF j = None THEN get_metric(soup, TypeRating) ELSE j

\* data["rating"] of extract_structured_data
extract_rating(soup, objs) ==
    LET d == get_metric(soup, TypeRating)
    IN  IF d = None THEN read_json_data(objs, PathRatingValue) ELSE d

\* data["review_count"] of extract_structured_data
extract_review_count(soup, objs) ==
    LET d == get_metric(soup, TypeReviewCount)
        a == IF d = None THEN read_json_data(objs, PathReviewCount) ELSE d
    IN  IF a = None THEN read_json_data(objs, PathRatingCount) ELSE a

\* data["pricing"] of extract_structured_data
extract_pricing(soup, objs) ==
    LET d == get_price(soup)
    IN  IF d = None THEN read_json_data(objs, PathOffersPrice) ELSE d

\* extract_structured_data(url, html), html parsing to the document doc
extract_structured_data(u, doc, raiseAt) ==
    LET soup == doc.elems
        objs == get_json_ld(doc.ld)
    IN  [url              |-> u,
         title            |-> IF Ran(2, raiseAt) THEN find_title(soup) ELSE None,
         h1               |-> IF Ran(3, raiseAt) THEN find_h1(soup) ELSE None,
         meta_description |-> IF Ran(4, raiseAt) THEN find_meta(soup) ELSE None,
         rating           |-> IF Ran(6, raiseAt) THEN extract_rating(soup, objs)
                              ELSE None,
         review_count     |-> IF Ran(7, raiseAt) THEN extract_review_count(soup, objs)
                              ELSE None,
         pricing          |-> IF Ran(8, raiseAt) THEN extract_pricing(soup, objs)
                              ELSE None,
         ctas             |-> IF Ran(9, raiseAt) THEN get_btns(soup, u) ELSE <<>>,
         status           |-> IF raiseAt = 0 THEN "ok" ELSE "failed"]

(***************************************************************************)
(* main.py: make_empty.                                                    *)
(***************************************************************************)
make_empty(u, status) ==
    [url              |-> u,
     title            |-> None,
     h1               |-> None,
     meta_description |-> None,
     rating           |-> None,
     review_count     |-> None,
     pricing          |-> None,
     ctas             |-> <<>>,
     status           |-> status]

(***************************************************************************)
(* utils/robots.py.  A RobotFileParser is [disallow_all, allow_all,        *)
(* last_checked, entries]; last_checked is whether parse() has run.  The   *)
(* outcome of parser.read() is the environment's: urlopen raises something *)
(* other than HTTPError (kind "raise", which read() lets through), raises  *)
(* HTTPError (kind "http", which read() absorbs into the parser's flags),  *)
(* or answers a document (kind "doc"), an entry per user-agent group.      *)
(***************************************************************************)
Agent == "scraper_project"
DeniedReason == "Robots.txt disallowed access for agent 'scraper_project/1.0'"

NewParser == [disallow_all |-> FALSE, allow_all |-> FALSE, last_checked |-> FALSE,
              entries |-> <<>>]

\* RobotFileParser.read() on an outcome that does not raise
robot_read(outcome) ==
    IF outcome.kind = "http"
    THEN IF outcome.code \in {401, 403} THEN [NewParser EXCEPT !.disallow_all = TRUE]
         ELSE IF outcome.code >= 400 /\ outcome.code < 500
              THEN [NewParser EXCEPT !.allow_all = TRUE]
         ELSE NewParser
    ELSE [NewParser EXCEPT !.last_checked = TRUE, !.entries = outcome.entries]

\* s.startswith(prefix)
StartsWith(s, prefix) ==
    Len(prefix) <= Len(s) /\ SubSeq(s, 1, Len(prefix)) = prefix

\* Entry.allowance(path): the first rule line that applies decides
RECURSIVE Allowance(_, _)
Allowance(rules, path) ==
    IF rules = <<>> THEN TRUE
    ELSE IF StartsWith(path, Head(rules).path) THEN Head(rules).allow
    ELSE Allowance(Tail(rules), path)

\* RobotFileParser.can_fetch(agent, url): the entries naming the agent come
\* first, the "*" entry last
can_fetch(p, u) ==
    IF p.disallow_all THEN FALSE
    ELSE IF p.allow_all THEN TRUE
    ELSE IF ~p.last_checked THEN FALSE
    ELSE LET named == SelectSeq(p.entries, LAMBDA e : e.agent = Agent)
             star  == SelectSeq(p.entries, LAMBDA e : e.agent = "*")
         IN  IF named # <<>> THEN Allowance(named[1].rules, u.path)
             ELSE IF star # <<>> THEN Allowance(star[1].rules, u.path)
             ELSE TRUE

\* _get_base_domain(url)
_get_base_domain(u) == SchemeAndHost(u)

NoParser == [kind |-> "None"]

\* _get_robot_parser that stores nothing in _ROBOTS_CACHE
_get_robot_parser_no_store(c, base, outcome) ==
    IF base \in DOMAIN c
    THEN [p |-> c[base], cache |-> c, requested |-> FALSE]
    ELSE IF outcome.kind = "raise"
         THEN [p |-> NoParser, cache |-> c, requested |-> TRUE]
         ELSE [p |-> robot_read(outcome), cache |-> c, requested |-> TRUE]

\* _get_robot_parser(base_domain) with cache c: the parser (or None), the
\* cache afterwards, and whether robots.txt was requested
_get_robot_parser(c, base, outcome) ==
    IF base \in DOMAIN c
    THEN [p |-> c[base], cache |-> c, requested |-> FALSE]
    ELSE IF outcome.kind = "raise"
         THEN [p |-> NoParser, cache |-> c, requested |-> TRUE]
         ELSE LET parser == robot_read(outcome)
              IN  [p |-> parser,
                   cache |-> [b \in DOMAIN c \cup {base} |->
                                 IF b = base THEN parser ELSE c[b]],
                   requested |-> TRUE]

\* is_allowed(url): the pair returned, with _get_robot_parser's effects
is_allowed(c, u, outcome) ==
    LET g == _get_robot_parser(c, _get_base_domain(u), outcome)
        ok == IF g.p = NoParser THEN TRUE ELSE can_fetch(g.p, u)
    IN  [allowed |-> ok, reason |-> IF ok THEN "" ELSE DeniedReason,
         p |-> g.p, cache |-> g.cache, requested |-> g.requested]

(***************************************************************************)
(* The inputs: URLs, robots.txt outcomes, documents and GET outcomes.      *)
(***************************************************************************)
Https == <<"h", "t", "t", "p", "s">>
HostA == <<"a", ".", "i", "o">>
HostB == <<"b", ".", "i", "o">>

Url(host, path) == [scheme |-> Https, netloc |-> host, path |-> path]

Urls == {Url(HostA, <<"/">>), Url(HostA, <<"/", "x">>), Url(HostB, <<"/", "x">>)}

\* All sequences over S of length at most n.
SeqsUpTo(S, n) == UNION {[1..m -> S] : m \in 0..n}

UrlLists == SeqsUpTo(Urls, MaxUrls)

\* A robots.txt that disallows /x for every agent.
DisallowX == <<[agent |-> "*", rules |-> <<[allow |-> FALSE, path |-> <<"/", "x">>]>>]>>

PolicyOutcomes ==
    {[kind |-> "raise"],
     [kind |-> "http", code |-> 403],
     [kind |-> "http", code |-> 404],
     [kind |-> "http", code |-> 503],
     [kind |-> "doc", entries |-> DisallowX]}

\* Stands for the outcome when no request is made.
NoRequest == [kind |-> "no request"]

El(tag) ==
    [tag |-> tag, itemprop |-> "", aria |-> <<>>, class |-> <<>>, id |-> <<>>,
     name |-> "", content |-> <<>>, strings |-> <<>>, href |-> <<>>,
     value |-> <<>>, placeholder |-> <<>>]

Block(value) == [raw |-> "json", parsed |-> value]
Malformed == [raw |-> "malformed", parsed |-> JNull]

\* A dict with aggregateRating.ratingValue = value
Rated(value) == JDict([aggregateRating |-> JDict([ratingValue |-> value])])

EmptyDoc == [elems |-> <<>>, ld |-> <<>>]

\* A page on which every field is found.
RichDoc ==
    [elems |->
        << [El("title") EXCEPT !.strings = << <<" ", "A", "c", "m", "e", " ">> >>],
           [El("meta") EXCEPT !.name = "description",
                              !.content = <<"B", "e", "s", "t", " ", "t", "o", "o", "l">>],
           [El("h1") EXCEPT !.strings = << <<"W", "e", "l", "c", "o", "m", "e">> >>],
           [El("span") EXCEPT !.itemprop = "ratingValue",
                              !.strings = << <<"4", ".", "2">> >>],
           [El("span") EXCEPT !.itemprop = "reviewCount",
                              !.strings = << <<"1", "2">> >>],
           [El("div") EXCEPT !.class = << <<"p", "r", "i", "c", "e">> >>,
                             !.strings = << <<"f", "r", "o", "m", " ", "9">> >>],
           [El("a") EXCEPT !.href = <<"/", "j", "o", "i", "n">>,
                           !.strings = << <<"S", "i", "g", "n", " ", "U", "p", " ",
                                            "F", "r", "e", "e">> >>] >>,
     ld |-> << Block(Rated(JStr(<<"4", ".", "5">>))) >>]

Captcha == <<"c", "a", "p", "t", "c", "h", "a">>

\* "captcha" in every letter case
CaptchaCasings ==
    {[n \in 1..Len(Captcha) |-> IF n \in S THEN UpperChar(Captcha[n]) ELSE Captcha[n]] :
        S \in SUBSET (1..Len(Captcha))}

CleanText == <<"A", "c", "m", "e", " ", "-", " ", "W", "e", "l", "c", "o", "m", "e">>

Response(status, decodable, text, doc) ==
    [kind |-> "response", status_code |-> status, decodable |-> decodable,
     text |-> text, doc |-> doc, _was_blocked |-> FALSE]

TransportError == [kind |-> "error"]

StatusCodes == {200, 403, 404, 429, 500, 503}

ChallengeText == <<"p", "l", "e", "a", "s", "e", " ", "s", "o", "l", "v", "e", " ",
                   "t", "h", "e", " ", "C", "a", "P", "t", "C", "h", "A">>

\* What a GET meets in the pipeline specification: a transport error (the
\* retried outcome), a page, a body that cannot be decoded, a challenge
\* page, and error statuses. The retried statuses are in FetchOutcomes.
PipelineOutcomes ==
    {TransportError,
     Response(200, TRUE, CleanText, RichDoc),
     Response(200, FALSE, <<>>, EmptyDoc),
     Response(200, TRUE, ChallengeText, EmptyDoc),
     Response(403, TRUE, CleanText, EmptyDoc),
     Response(404, TRUE, CleanText, EmptyDoc)}

\* The bodies a server answers in the fetcher specification.
FetchBodies ==
    {[decodable |-> TRUE, text |-> <<"x", " ">> \o c \o <<"!">>, doc |-> EmptyDoc] :
        c \in CaptchaCasings}
    \cup {[decodable |-> TRUE, text |-> CleanText, doc |-> EmptyDoc],
          [decodable |-> TRUE, text |-> <<"c", "a", "p", "c", "h", "a">>, doc |-> EmptyDoc],
          [decodable |-> FALSE, text |-> <<>>, doc |-> EmptyDoc]}

\* What a GET meets in the fetcher specification.
FetchOutcomes ==
    {TransportError}
    \cup {Response(st, b.decodable, b.text, b.doc) : st \in StatusCodes, b \in FetchBodies}

\* random.uniform(2, 5): the two ends of the interval
Delays == {2, 5}

(***************************************************************************)
(* main.py: start_scraping, one action per call it makes.                  *)
(***************************************************************************)
DefaultTries == 3
DefaultWait == 2

NoGate == [kind |-> "not called"]
NoResponse == [kind |-> "no response"]
NoDoc == [kind |-> "no document"]
NoData == [kind |-> "no data"]

\* The URL the loop is at.
url == urls[k]

\* The locals of one iteration, as they are when the iteration begins.
FreshLocals ==
    /\ gate = NoGate
    /\ i = 0
    /\ attempts = <<>>
    /\ sleeps = <<>>
    /\ response = NoResponse
    /\ resp = NotReturned

Init ==
    /\ urls \in UrlLists
    /\ k = 1
    /\ pc = IF urls = <<>> THEN "done" ELSE "gate"
    /\ all_results = <<>>
    /\ cache = <<>>
    /\ policyLog = <<>>
    /\ tries = DefaultTries
    /\ wait = DefaultWait
    /\ FreshLocals
    /\ page = NoDoc
    /\ data = NoData
    /\ raised = {}

\* A call of the loop body (is_allowed, time.sleep, fetch_url_data) raises
\* past its own handlers: control goes to the except clause of line 208.
Raise ==
    /\ pc \in {"gate", "delay", "fetch"}
    /\ pc' = "except"
    /\ raised' = raised \cup {k}
    /\ UNCHANGED <<urls, k, all_results, cache, policyLog, gate, tries, wait, i,
                   attempts, sleeps, response, resp, page, data>>

\* The except clause without its append: the failed URL is dropped
Unhandled_no_record ==
    /\ pc = "except"
    /\ pc' = "next"
    /\ UNCHANGED <<urls, k, all_results, cache, policyLog, gate, tries, wait, i,
                   attempts, sleeps, response, resp, page, data, raised>>

\* The except clause ending the loop: the URLs after the failed one are
\* not processed
Unhandled_abort ==
    /\ pc = "except"
    /\ all_results' = Append(all_results, make_empty(url, "failed"))
    /\ pc' = "done"
    /\ k' = Len(urls) + 1
    /\ UNCHANGED <<urls, cache, policyLog, gate, tries, wait, i,
                   attempts, sleeps, response, resp, page, data, raised>>

\* main.py 208-210: the except clause of the loop body.
Unhandled ==
    /\ pc = "except"
    /\ all_results' = Append(all_results, make_empty(url, "failed"))
    /\ pc' = "next"
    /\ UNCHANGED <<urls, k, cache, policyLog, gate, tries, wait, i,
                   attempts, sleeps, response, resp, page, data, raised>>

\* The robots.txt check that goes on to fetch whatever is_allowed answers
Gate_no_skip(outcome) ==
    /\ pc = "gate"
    /\ LET g == is_allowed(cache, url, outcome)
       IN  /\ gate' = [allowed |-> g.allowed, reason |-> g.reason, p |-> g.p]
           /\ cache' = g.cache
           /\ policyLog' = IF g.requested
                           THEN Append(policyLog, <<_get_base_domain(url), outcome.kind>>)
                           ELSE policyLog
    /\ pc' = "delay"
    /\ UNCHANGED <<urls, k, all_results, tries, wait, i, attempts, sleeps, response,
                   resp, page, data, raised>>

\* main.py 178-182: the robots.txt check and the skip it may cause.
Gate(outcome) ==
    /\ pc = "gate"
    /\ LET g == is_allowed(cache, url, outcome)
       IN  /\ gate' = [allowed |-> g.allowed, reason |-> g.reason, p |-> g.p]
           /\ cache' = g.cache
           /\ policyLog' = IF g.requested
                           THEN Append(policyLog, <<_get_base_domain(url), outcome.kind>>)
                           ELSE policyLog
           /\ IF g.allowed
              THEN /\ pc' = "delay"
                   /\ UNCHANGED all_results
              ELSE /\ pc' = "next"
                   /\ all_results' = Append(all_results, make_empty(url, "skipped"))
    /\ UNCHANGED <<urls, k, tries, wait, i, attempts, sleeps, response, resp,
                   page, data, raised>>

\* main.py 185-187: the politeness delay.
Delay(seconds) ==
    /\ pc = "delay"
    /\ seconds >= 2 /\ seconds <= 5
    /\ pc' = "fetch"
    /\ UNCHANGED <<urls, k, all_results, cache, policyLog, gate, tries, wait, i,
                   attempts, sleeps, response, resp, page, data, raised>>

\* main.py 70-129 and 189: one iteration of fetch_url_data's loop, on the
\* outcome o of its GET.
Fetch(o) ==
    /\ pc = "fetch"
    /\ i <= tries
    /\ attempts' = Append(attempts, IF o.kind = "error" THEN 0 ELSE o.status_code)
    /\ response' = IF o.kind = "error" THEN response
                   ELSE [o EXCEPT !._was_blocked = check_blocking(o)]
    /\ LET r == fetch_iteration(o, i, tries, wait)
       IN  IF r.op = "continue"
           THEN /\ sleeps' = Append(sleeps, r.sleep)
                /\ i' = i + 1
                /\ UNCHANGED <<pc, resp>>
           ELSE /\ resp' = r.value
                /\ pc' = "dispatch"
                /\ UNCHANGED <<sleeps, i>>
    /\ UNCHANGED <<urls, k, all_results, cache, policyLog, gate, tries, wait,
                   page, data, raised>>

\* Whether main.py 190-206 gets as far as line 206 with r.
Extracts(r) ==
    /\ r # NotReturned
    /\ r # NoneResp
    /\ ~r._was_blocked
    /\ r.status_code < 400

\* The record main.py 190-207 appends for what fetch_url_data returned.
record_for(u, r, raiseAt) ==
    IF r = NoneResp THEN make_empty(u, "failed")
    ELSE IF r._was_blocked THEN make_empty(u, "blocked")
    ELSE IF r.status_code >= 400 THEN make_empty(u, "failed")
    ELSE extract_structured_data(u, r.doc, raiseAt)

\* main.py 190-207: from the return of fetch_url_data to the append.  On a
\* body that cannot be decoded, resp.text of line 206 raises into line 208.
Dispatch(raiseAt) ==
    /\ pc = "dispatch"
    /\ IF Extracts(resp) /\ ~resp.decodable
       THEN /\ pc' = "except"
            /\ raised' = raised \cup {k}
            /\ UNCHANGED all_results
       ELSE /\ all_results' = Append(all_results, record_for(url, resp, raiseAt))
            /\ pc' = "next"
            /\ UNCHANGED raised
    /\ UNCHANGED <<urls, k, cache, policyLog, gate, tries, wait, i, attempts,
                   sleeps, response, resp, page, data>>

\* main.py 174 and 212: the loop goes to the next URL, or the function returns.
NextUrl ==
    /\ pc = "next"
    /\ k' = k + 1
    /\ pc' = IF k + 1 > Len(urls) THEN "done" ELSE "gate"
    /\ gate' = NoGate
    /\ i' = 0
    /\ attempts' = <<>>
    /\ sleeps' = <<>>
    /\ response' = NoResponse
    /\ resp' = NotReturned
    /\ UNCHANGED <<urls, all_results, cache, policyLog, tries, wait, page, data, raised>>

\* The outcomes of parser.read() that is_allowed can meet at the current URL.
GateOutcomes ==
    IF pc # "gate" THEN {}
    ELSE IF _get_base_domain(url) \in DOMAIN cache THEN {NoRequest}
    ELSE PolicyOutcomes

\* Where extract_structured_data raises at the current dispatch: nowhere,
\* at its first statement, at its last.
RaiseChoices ==
    IF pc # "dispatch" THEN {}
    ELSE IF Extracts(resp) /\ resp.decodable THEN {0, 1, Len(Steps)}
    ELSE {0}

Next ==
    \/ \E outcome \in GateOutcomes : Gate(outcome)
    \/ \E seconds \in Delays : Delay(seconds)
    \/ \E o \in PipelineOutcomes : Fetch(o)
    \/ \E raiseAt \in RaiseChoices : Dispatch(raiseAt)
    \/ Raise
    \/ Unhandled
    \/ NextUrl

Spec == Init /\ [][Next]_vars

(***************************************************************************)
(* The fetcher on its own: one call fetch_url_data(url, tries, wait) for   *)
(* every tries and wait within the bounds, and the dispatch of what it     *)
(* returns.                                                                *)
(***************************************************************************)
InitFetch ==
    /\ urls = <<Url(HostA, <<"/">>)>>
    /\ k = 1
    /\ pc = "fetch"
    /\ all_results = <<>>
    /\ cache = <<>>
    /\ policyLog = <<>>
    /\ tries \in 0..MaxTries
    /\ wait \in 1..MaxWait
    /\ FreshLocals
    /\ page = NoDoc
    /\ data = NoData
    /\ raised = {}

NextFetch ==
    \/ \E o \in FetchOutcomes : Fetch(o)
    \/ \E raiseAt \in RaiseChoices : Dispatch(raiseAt)
    \/ Unhandled

SpecFetch == InitFetch /\ [][NextFetch]_vars

\* What a GET meets in the retry specification: a transport error, every
\* status with an ordinary body, a challenge page and an undecodable body.
RetryOutcomes ==
    {TransportError,
     Response(200, TRUE, ChallengeText, EmptyDoc),
     Response(200, FALSE, <<>>, EmptyDoc)}
    \cup {Response(st, TRUE, CleanText, EmptyDoc) : st \in StatusCodes}

NextRetry ==
    \/ \E o \in RetryOutcomes : Fetch(o)
    \/ \E raiseAt \in RaiseChoices : Dispatch(raiseAt)
    \/ Unhandled

\* The call runs on: requests.get has a timeout of 20 s and time.sleep
\* returns, so an enabled step of the loop is eventually taken.
SpecRetry == InitFetch /\ [][NextRetry]_vars /\ WF_vars(NextRetry)

(***************************************************************************)
(* The extractor on its own: extract_structured_data on every document     *)
(* made of at most MaxElems of the elements below and at most MaxObjs of   *)
(* the ld+json blocks below.                                               *)
(***************************************************************************)
RatingElems ==
    {[El("span") EXCEPT !.itemprop = "ratingValue", !.strings = << <<"4", ".", "2">> >>],
     [El("meta") EXCEPT !.itemprop = "ratingValue", !.content = <<" ", "3", ".", "9">>],
     [El("span") EXCEPT !.itemprop = "ratingValue"],
     [El("div") EXCEPT !.aria = <<"U", "s", "e", "r", " ", "R", "a", "t", "i", "n", "g">>,
                       !.strings = << <<"4", " ", "o", "f", " ", "5">> >>],
     [El("div") EXCEPT !.aria = <<"U", "s", "e", "r", " ", "R", "a", "t", "i", "n", "g">>],
     [El("p") EXCEPT !.class = << <<"s", "t", "a", "r", "-", "r", "a", "t", "i", "n", "g">>,
                                  <<"T", "h", "r", "e", "e">> >>],
     [El("div") EXCEPT !.class = << <<"s", "c", "o", "r", "e">> >>,
                       !.strings = << <<"8", ".", "8">> >>],
     [El("div") EXCEPT !.class = << <<"c", "a", "r", "d">> >>,
                       !.strings = << <<"h", "e", "l", "l", "o">> >>]}

LdBlocks ==
    {Malformed,
     Block(Rated(JStr(<<"4", ".", "5">>))),
     Block(Rated(JNull)),
     Block(JDict(("@graph" :> JList(<<Rated(JInt(3))>>))
                 @@ ("aggregateRating" :> JDict([ratingValue |-> JFloat(4, 7)])))),
     Block(JList(<<JStr(<<"x">>), JDict([name |-> JStr(<<"A", "c", "m", "e">>)])>>))}

Documents ==
    {[elems |-> es, ld |-> bs] :
        es \in SeqsUpTo(RatingElems, MaxElems), bs \in SeqsUpTo(LdBlocks, MaxObjs)}

InitExtract ==
    /\ urls = <<Url(HostA, <<"/">>)>>
    /\ k = 1
    /\ pc = "extract"
    /\ all_results = <<>>
    /\ cache = <<>>
    /\ policyLog = <<>>
    /\ tries = DefaultTries
    /\ wait = DefaultWait
    /\ FreshLocals
    /\ page \in Documents
    /\ data = NoData
    /\ raised = {}

\* parser.py 237-280: extract_structured_data(url, html) on the document.
Extract(raiseAt) ==
    /\ pc = "extract"
    /\ data' = extract_structured_data(url, page, raiseAt)
    /\ pc' = "extracted"
    /\ UNCHANGED <<urls, k, all_results, cache, policyLog, gate, tries, wait, i,
                   attempts, sleeps, response, resp, page, raised>>

NextExtract == \E raiseAt \in 0..Len(Steps) : Extract(raiseAt)

SpecExtract == InitExtract /\ [][NextExtract]_vars

(* Properties of the pipeline, the fetcher and the extractor.              *)
(* Properties of the pipeline, the fetcher and the extractor.               *)
(***************************************************************************)
\* The record of a URL with nothing extracted.
EmptyRecord(u, status) ==
    [url |-> u, title |-> None, h1 |-> None, meta_description |-> None,
     rating |-> None, review_count |-> None, pricing |-> None, ctas |-> <<>>,
     status |-> status]

\* Every optional field of the record is absent and it has no CTA.
Absent(r) ==
    /\ r.title = None
    /\ r.h1 = None
    /\ r.meta_description = None
    /\ r.rating = None
    /\ r.review_count = None
    /\ r.pricing = None
    /\ r.ctas = <<>>

\* C1: when start_scraping returns, all_results holds exactly one record per
\* input URL, in input order: it is as long as the input and record n has
\* the url of input n, whatever the gate, the fetches and the extraction
\* did, errors raised included.
C1_OneRecordPerUrl ==
    pc = "done" =>
        /\ Len(all_results) = Len(urls)
        /\ \A n \in 1..Len(urls) : all_results[n].url = urls[n]

\* A run over two different URLs has returned; processing the first raised,
\* and the second was denied by robots.txt.
C1_Witness ==
    /\ pc = "done"
    /\ Len(urls) >= 2
    /\ urls[1] # urls[2]
    /\ raised = {1}
    /\ all_results[2].status = "skipped"

\* C2: whenever is_allowed denies the current URL, the loop appends for it
\* the record with status skipped, every optional field absent and no
\* CTA, and no GET of the URL is made: fetch_url_data is not called.
C2_DeniedIsSkippedUnfetched ==
    (gate # NoGate /\ ~gate.allowed) =>
        /\ pc = "next"
        /\ Len(all_results) = k
        /\ all_results[k] = EmptyRecord(urls[k], "skipped")
        /\ attempts = <<>>
        /\ response = NoResponse
        /\ resp = NotReturned

\* The second URL of a run was denied after the first was fetched and
\* extracted.
C2_Witness ==
    /\ k = 2
    /\ gate # NoGate
    /\ ~gate.allowed
    /\ Len(all_results) = 2
    /\ all_results[1].status = "ok"

\* The last response received has a text without any blocking phrase.
CleanBody(r) ==
    /\ r.decodable
    /\ \A n \in 1..Len(_BLOCK_KEYWORDS) : ~Contains(_BLOCK_KEYWORDS[n], Lower(r.text))

\* C3: for every status st of the retryable set {429, 500, 502, 503, 504}:
\* when fetch_url_data has returned and every GET was answered with status
\* st, there were tries + 1 GETs, the sleeps before the retries were
\* wait * 2^0, ..., wait * 2^(tries-1), and the call returned Failed (None).
C3_RetryableStatusRetried ==
    \A st \in retry_codes :
        (/\ pc # "fetch"
         /\ attempts # <<>>
         /\ \A n \in 1..Len(attempts) : attempts[n] = st
         /\ CleanBody(response))
        => /\ Len(attempts) = tries + 1
           /\ Len(sleeps) = tries
           /\ \A n \in 1..Len(sleeps) : sleeps[n] = wait * (2 ^ (n - 1))
           /\ resp = NoneResp

\* C4: a response with status 403 makes fetch_url_data return at once (no
\* retry, no backoff sleep after it) with the Failed outcome, not Blocked,
\* and the loop records the URL with status failed.
C4_ForbiddenIsFailed ==
    (response # NoResponse /\ response.status_code = 403) =>
        /\ pc \in {"dispatch", "next"}
        /\ resp = NoneResp \/ ~resp._was_blocked
        /\ pc = "next" => all_results[k].status = "failed"

\* The text contains "captcha" with each letter in either case.
HasCaptcha(text) ==
    \E off \in 0..(Len(text) - Len(Captcha)) :
        \A j \in 1..Len(Captcha) :
            text[off + j] \in {Captcha[j], UpperChar(Captcha[j])}

\* The last GET of the call is the first one that was answered.
FirstResponse ==
    /\ response # NoResponse
    /\ attempts # <<>>
    /\ attempts[Len(attempts)] # 0
    /\ \A n \in 1..(Len(attempts) - 1) : attempts[n] = 0

\* C5: if the first response fetch_url_data receives has a body containing
\* "captcha" in any letter case, then whatever its status the call returns
\* that response as Blocked at once: no GET and no backoff sleep follow it
\* (one GET and no sleep at all when it answers the first GET), and the
\* loop records the URL with status blocked.
C5_CaptchaIsBlocked ==
    (FirstResponse /\ response.decodable /\ HasCaptcha(response.text)) =>
        /\ pc \in {"dispatch", "next"}
        /\ resp = response
        /\ resp._was_blocked
        /\ Len(sleeps) = Len(attempts) - 1
        /\ Len(attempts) = 1 => sleeps = <<>>
        /\ pc = "next" => all_results = <<EmptyRecord(urls[k], "blocked")>>

\* A call that could have retried got a 200 with a mixed-case "captcha" at
\* its first GET, and the URL was recorded as blocked.
C5_Witness ==
    /\ pc = "next"
    /\ tries > 0
    /\ Len(attempts) = 1
    /\ response # NoResponse
    /\ response.status_code = 200
    /\ HasCaptcha(response.text)
    /\ ~Contains(Captcha, response.text)
    /\ Len(all_results) = 1
    /\ all_results[1].status = "blocked"

\* C6: every record whose status is not ok has title, h1, meta_description,
\* rating, review_count and pricing absent and no CTA, a record whose
\* extraction raised part-way included.
C6_NotOkIsEmpty ==
    \A n \in 1..Len(all_results) :
        all_results[n].status # "ok" => Absent(all_results[n])

\* C7 as stated: robots.txt of a base domain is requested at most once.
C7_PolicyFetchedOncePerOrigin ==
    \A m, n \in 1..Len(policyLog) :
        m # n => policyLog[m][1] # policyLog[n][1]

\* C7 as amended: once a robots.txt request for a base domain has not
\* raised, its parser is cached and no later call requests robots.txt of
\* that base domain again; a request is repeated only after requests that
\* raised.
C7_CachedPolicyNotRefetched ==
    /\ \A m, n \in 1..Len(policyLog) :
           (m < n /\ policyLog[m][1] = policyLog[n][1]) => policyLog[m][2] = "raise"
    /\ \A n \in 1..Len(policyLog) :
           policyLog[n][2] # "raise" => policyLog[n][1] \in DOMAIN cache
    /\ \A b \in DOMAIN cache :
           \E n \in 1..Len(policyLog) : policyLog[n][1] = b /\ policyLog[n][2] # "raise"

\* The second is_allowed call of a run, for the base domain of the first,
\* was answered from the cache: one request in all, which did not raise.
C7_Witness ==
    /\ k = 2
    /\ gate # NoGate
    /\ _get_base_domain(urls[1]) = _get_base_domain(urls[2])
    /\ Len(policyLog) = 1
    /\ policyLog[1][2] # "raise"

\* The parser is_allowed worked with holds no parsed robots.txt: read()
\* raised, or met an HTTP error.
PolicyUnavailable(p) == p = NoParser \/ ~p.last_checked

\* C8: whenever robots.txt of the URL's base domain could not be fetched or
\* parsed, is_allowed returns (True, "") and the loop goes on to the fetch:
\* the URL is not recorded as skipped.
C8_FailOpen ==
    (gate # NoGate /\ PolicyUnavailable(gate.p)) =>
        /\ gate.allowed
        /\ gate.reason = ""
        /\ pc = "next" => all_results[k].status # "skipped"

\* C9: when a call raises into the except clause while URL k is processed,
\* the loop appends exactly one record, failed and empty, for URL k and goes
\* on to the next URL; no step changes a record already appended; and the
\* loop goes from each URL to the one after it.
C9_ErrorIsolation ==
    [][/\ pc = "except" =>
              /\ all_results' = Append(all_results, EmptyRecord(urls[k], "failed"))
              /\ k' = k
              /\ pc' = "next"
       /\ Len(all_results') >= Len(all_results)
       /\ SubSeq(all_results', 1, Len(all_results)) = all_results
       /\ (pc = "next" /\ k < Len(urls)) =>
              /\ k' = k + 1
              /\ pc' = "gate"
              /\ all_results' = all_results]_vars

\* Processing the first of two URLs raised; the run went on and extracted
\* the second.
C9_Witness ==
    /\ pc = "done"
    /\ Len(urls) = 2
    /\ raised = {1}
    /\ Len(all_results) = 2
    /\ all_results[1] = EmptyRecord(urls[1], "failed")
    /\ all_results[2].status = "ok"

\* No element carries a rating marker: itemprop="ratingValue", an
\* aria-label containing "rating", or a class with a rating keyword.
NoDomRatingMarker(soup) ==
    \A n \in 1..Len(soup) :
        /\ soup[n].itemprop # "ratingValue"
        /\ ~Contains(TypeRating, Lower(soup[n].aria))
        /\ ~AnyIn(MetricKeys(TypeRating), Lower(Join(<<" ">>, soup[n].class)))

\* The object has an aggregateRating.ratingValue that is a string or a number.
HasRatingValue(o) ==
    /\ o.t = "dict"
    /\ "aggregateRating" \in DOMAIN o.v
    /\ o.v["aggregateRating"].t = "dict"
    /\ "ratingValue" \in DOMAIN o.v["aggregateRating"].v
    /\ o.v["aggregateRating"].v["ratingValue"].t \in {"str", "int", "bool", "float"}

\* The ratingValue of the first collected object that has one, as a string.
LdRating(doc) ==
    LET objs == get_json_ld(doc.ld)
        has  == {n \in 1..Len(objs) : HasRatingValue(objs[n])}
    IN  IF has = {} THEN None
        ELSE LET first == CHOOSE n \in has : \A m \in has : n <= m
             IN  PyStr(objs[first].v["aggregateRating"].v["ratingValue"])

\* C10: the rating of an extracted record is the value of the DOM heuristic
\* whenever it yields one; when it yields none, and so whenever the page has
\* no DOM rating marker, it is the aggregateRating.ratingValue of the first
\* JSON-LD object, in collection order, that has one; it is absent only
\* when neither source gives a value.
C10_RatingPrecedence ==
    (pc = "extracted" /\ data.status = "ok") =>
        LET dom == get_metric(page.elems, TypeRating)
        IN  /\ dom # None => data.rating = dom
            /\ dom = None => data.rating = LdRating(page)
            /\ NoDomRatingMarker(page.elems) => data.rating = LdRating(page)
            /\ data.rating = None <=> (dom = None /\ LdRating(page) = None)

\* A page without DOM rating markers whose JSON-LD gives ratingValue "4.5"
\* was extracted with rating "4.5".
C10_Witness ==
    /\ pc = "extracted"
    /\ data.status = "ok"
    /\ page.elems # <<>>
    /\ NoDomRatingMarker(page.elems)
    /\ page.ld = <<Block(Rated(JStr(<<"4", ".", "5">>)))>>
    /\ data.rating = <<"4", ".", "5">>

\* Every GET of the call so far failed at transport level.
AllTransport ==
    /\ attempts # <<>>
    /\ \A n \in 1..Len(attempts) : attempts[n] = 0

\* What C11 says of every state of a fetch_url_data call.
TransportRetryBudget ==
    /\ Len(attempts) <= tries + 1
    /\ pc = "fetch" => Len(attempts) <= tries
    /\ AllTransport =>
           /\ \A n \in 1..Len(sleeps) : sleeps[n] = wait * (2 ^ (n - 1))
           /\ pc = "fetch" => Len(sleeps) = Len(attempts)
           /\ pc # "fetch" =>
                  /\ Len(attempts) = tries + 1
                  /\ Len(sleeps) = tries
                  /\ resp = NoneResp

\* C11: when every GET of fetch_url_data(url, tries, wait) fails at
\* transport level, the call makes exactly tries + 1 GETs, sleeps
\* wait * 2^i after failed attempt i for each i < tries, does not sleep
\* after the last one and returns None (Failed); and whatever the GETs
\* meet, the call returns, and has returned once tries + 1 GETs are made.
C11_TransportRetry ==
    /\ []TransportRetryBudget
    /\ <>(pc # "fetch")

\* A call with two or more retries met only transport errors: it returned
\* None after tries + 1 GETs and the sleeps 2, 4, ...
C11_Witness ==
    /\ pc # "fetch"
    /\ tries >= 2
    /\ wait = 2
    /\ AllTransport
    /\ Len(attempts) = tries + 1
    /\ Len(sleeps) = tries
    /\ sleeps[1] = 2
    /\ sleeps[2] = 4
    /\ resp = NoneResp

====
